---- MODULE Spec2Model ----
(***************************************************************************)
(* A model of xtuner_lite's InternLM attention forward                     *)
(* (xtuner/model/modules/internlm.py) and of the multimodal chat loop      *)
(* (xtuner/tools/chat_mm.py).                                              *)
(*                                                                         *)
(* Tensors are abstracted to what the control flow and the bookkeeping     *)
(* depend on: a key/value tensor is the sequence of its entries along the  *)
(* sequence axis, cumulative_len is a list (one per sample) of boundary    *)
(* vectors, a prompt string is the sequence of its pieces.  Python's None  *)
(* is the empty tuple and a present value x is <<x>>.  Python assert       *)
(* statements are modelled as active (the interpreter's default).          *)
(***************************************************************************)
EXTENDS Integers, Sequences, FiniteSets, TLC

\* ------------------------------------------------------------------ bounds
\* Largest batch dimension, and largest number of cumulative_len samples.
MaxBsz == 2
\* Largest sequence length q_len of a batch (and largest boundary written).
MaxQ == 2
\* Attention layers invoked per forward pass.
NumLayers == 2
\* Forward passes (batches entering the model) of one run.
MaxPasses == 2
\* Longest key/value sequence the decode loop grows its cache to.
MaxKV == 4
\* Entries of the rotated vectors lie in -MaxAbs..MaxAbs.
MaxAbs == 2
\* Half of the largest last dimension given to rotate_half.
MaxHalf == 2
\* Chat turns before the model stops extending the history.
MaxTurns == 3
\* args.max_new_tokens, scaled down.
MaxNewTokens == 2

\* ----------------------------------------------------------------- helpers
None == <<>>
Some(x) == <<x>>
Get(o) == o[1]
Last(s) == s[Len(s)]

RECURSIVE Cat(_)
\* torch.cat(list, dim=0) of 1-d tensors
Cat(list) == IF list = <<>> THEN <<>> ELSE Head(list) \o Cat(Tail(list))

\* all sequences over S of length n
SeqsOfLen(S, n) == [1..n -> S]

VARIABLES
  SUPPORT_FLASH2,   \* flash_attn imported
  SUPPORT_XFORMERS, \* xformers imported
  hub,              \* MessageHub 'for_flash_attn', the keys of this rank
  written,          \* what the upstream stage last wrote to hub
  batch,            \* the batch of the current pass
  passes,           \* batches that have entered the model
  pc,               \* "idle" | "assembling" | "running" (a pass is under way)
  layer,            \* layer invocations completed in the current pass
  out,              \* what the last call of internlm_attn_forward did
  held,             \* the cache the decode loop holds (None or <<K, V>>)
  fedLen,           \* tokens the decode loop fed since the cache was started
  rotX, rotY, rotPc,\* rotate_half: input, current value, applications
  hasImage,         \* args.image is not None
  hasSystem,        \* a system text is configured and the template has SYSTEM
  n_turn, inputs,   \* the chat loop's locals
  chatPc,           \* where the chat loop stands
  ids               \* the ids built for generation

vars == <<SUPPORT_FLASH2, SUPPORT_XFORMERS, hub, written, batch, passes,
          pc, layer, out, held, fedLen, rotX, rotY, rotPc, hasImage, hasSystem,
          n_turn, inputs, chatPc, ids>>

attnVars == <<SUPPORT_FLASH2, SUPPORT_XFORMERS, hub, written, batch,
              passes, pc, layer, out, held, fedLen>>
rotVars == <<rotX, rotY, rotPc>>
chatVars == <<hasImage, hasSystem, n_turn, inputs, chatPc, ids>>

\* ------------------------------------------------ internlm_attn_forward
\* The names of the four attention kernels the forward can call.
VARLEN == "flash_attn_varlen_func"
DENSE == "flash_attn_func"
XOPS == "xops.memory_efficient_attention"
SDPA == "F.scaled_dot_product_attention"

\* message_hub.get_info(key): the stored object itself, or None when the key
\* was never written.
NoContext == [cumulative_len |-> None, indexes |-> None, max_seqlen |-> None]

\* use_local_attn = cumulative_len is not None
use_local_attn(cumulative_len) == cumulative_len # None

\* assert len(cumulative_len) == bsz and cumulative_len[0][-1] == q_len
LayoutAssert(cl, bsz, q_len) == Len(cl) = bsz /\ Last(cl[1]) = q_len

\* kv_seq_len = key_states.shape[-2] (+ past_key_value[0].shape[-2])
KvSeqLen(q_len, past) ==
  q_len + (IF past # None THEN Len(Get(past)[1]) ELSE 0)

\* A slip: the hub's indexes are used whatever the layout.
PositionIndexAlwaysIndexes(local) == "indexes"

\* indexes if use_local_attn else position_ids
PositionIndex(local) == IF local THEN "indexes" ELSE "position_ids"

\* key_states = self.k_proj(hidden_states)..., rotated: one entry per token
KeyStates(hidden) == [j \in 1..Len(hidden) |-> <<"k", hidden[j]>>]
\* value_states = self.v_proj(hidden_states)...: one entry per token
ValueStates(hidden) == [j \in 1..Len(hidden) |-> <<"v", hidden[j]>>]

\* A slip: the new entries are put before the cache.
MergeCacheNewFirst(past, n, states) ==
  IF past # None THEN states \o Get(past)[n] ELSE states

\* torch.cat([past_key_value[n], states], dim=2) when a cache is supplied
MergeCache(past, n, states) ==
  IF past # None THEN Get(past)[n] \o states ELSE states

\* past_key_value = (key_states, value_states) if use_cache else None
PresentCache(K, V, use_cache) == IF use_cache THEN Some(<<K, V>>) ELSE None

\* A slip: the assertion on the flash_attn import is left out.
Flash2AssertSkipped(flash2) == TRUE

\* assert SUPPORT_FLASH2
Flash2Assert(flash2) == flash2

\* the if/else ladder that picks the kernel
SelectKernel(local, flash2, xformers) ==
  IF flash2 \/ xformers
  THEN IF flash2
       THEN IF local THEN VARLEN ELSE DENSE
       ELSE XOPS
  ELSE SDPA

\* for i in range(1, bsz): cumulative_len[i] += q_len * i   (in place)
Rebase(cl, bsz, q_len) ==
  [i \in 1..Len(cl) |->
     IF i >= 2 /\ i <= bsz
     THEN [j \in 1..Len(cl[i]) |-> cl[i][j] + q_len * (i - 1)]
     ELSE cl[i]]

\* The record of a call that has not happened.
NoCall ==
  [called |-> FALSE, outcome |-> "none", bsz |-> 0, q_len |-> 0,
   local |-> FALSE, cuRead |-> None, validated |-> FALSE,
   position_index |-> "none", kv_seq_len |-> 0,
   past |-> None, pastAfter |-> None, use_cache |-> FALSE,
   newKey |-> <<>>, newValue |-> <<>>,
   key_states |-> <<>>, value_states |-> <<>>, present |-> None,
   kernel |-> "none", cu_seqlens |-> <<>>, max_seqlen |-> None]

\* internlm_attn_forward: what the call does (res) and the hub it leaves.
Fwd(h, bsz, hidden, past, use_cache, flash2, xformers) ==
  LET q_len == Len(hidden)
      cumulative_len == h.cumulative_len
      local == use_local_attn(cumulative_len)
      entry == [NoCall EXCEPT !.called = TRUE, !.bsz = bsz, !.q_len = q_len,
                              !.local = local, !.cuRead = cumulative_len,
                              !.validated = local,
                              !.past = past, !.pastAfter = past,
                              !.use_cache = use_cache]
  IN
  IF local /\ ~LayoutAssert(Get(cumulative_len), bsz, q_len)
  THEN [res |-> [entry EXCEPT !.outcome = "AssertionError:layout"], hub |-> h]
  ELSE
    LET newKey == KeyStates(hidden)
        newValue == ValueStates(hidden)
        K == MergeCache(past, 1, newKey)
        V == MergeCache(past, 2, newValue)
        merged == [entry EXCEPT !.position_index = PositionIndex(local),
                                !.kv_seq_len = KvSeqLen(q_len, past),
                                !.newKey = newKey, !.newValue = newValue,
                                !.key_states = K, !.value_states = V,
                                !.present = PresentCache(K, V, use_cache)]
    IN
    IF ~Flash2Assert(flash2)
    THEN [res |-> [merged EXCEPT !.outcome = "AssertionError:SUPPORT_FLASH2"],
          hub |-> h]
    ELSE
      LET kernel == SelectKernel(local, flash2, xformers) IN
      IF kernel = VARLEN
      THEN LET rebased == Rebase(Get(cumulative_len), bsz, q_len) IN
           [res |-> [merged EXCEPT !.outcome = "ok", !.kernel = kernel,
                                   !.cu_seqlens = Cat(rebased),
                                   !.max_seqlen = h.max_seqlen],
            hub |-> [h EXCEPT !.cumulative_len = Some(rebased)]]
      ELSE [res |-> [merged EXCEPT !.outcome = "ok", !.kernel = kernel],
            hub |-> h]

\* --------------------------------------------- the upstream stage, a pass
\* One sample's boundary vector as the upstream stage may write it: offsets
\* starting at 0, strictly increasing, at least one subsequence.
Boundaries ==
  {b \in UNION {SeqsOfLen(0..MaxQ, n) : n \in 2..(MaxQ + 1)} :
     /\ b[1] = 0
     /\ \A j \in 1..(Len(b) - 1) : b[j] < b[j + 1]}

\* The per-token position inside its subsequence, for one boundary vector.
SampleIndexes(b) ==
  Cat([j \in 1..(Len(b) - 1) |-> [t \in 1..(b[j + 1] - b[j]) |-> t - 1]])

\* indexes: the flattened per-token positions of the whole batch.
Indexes(cl) == Cat([i \in 1..Len(cl) |-> SampleIndexes(cl[i])])

\* max_seqlen: the longest subsequence of the batch.
MaxSeqlen(cl) ==
  LET lens == {cl[i][j + 1] - cl[i][j] :
                 <<i, j>> \in {p \in (1..Len(cl)) \X (1..MaxQ) :
                                 p[2] < Len(cl[p[1]])}} IN
  CHOOSE m \in lens : \A x \in lens : x <= m

\* The context the upstream stage writes for a packed batch.
PackedContext(cl) ==
  [cumulative_len |-> Some(cl), indexes |-> Some(Indexes(cl)),
   max_seqlen |-> Some(MaxSeqlen(cl))]

\* The hidden state of a batch, per position of the sequence axis.
Hidden(q_len) == [j \in 1..q_len |-> 0]

AttnInit ==
  /\ SUPPORT_FLASH2 \in BOOLEAN
  /\ SUPPORT_XFORMERS \in BOOLEAN
  /\ hub = NoContext
  /\ written = NoContext
  /\ batch = [bsz |-> 1, q_len |-> 1, populated |-> FALSE]
  /\ passes = 0
  /\ pc = "idle"
  /\ layer = 0
  /\ out = NoCall
  /\ held = None
  /\ fedLen = 0

\* The upstream stage builds the context of a packed batch and writes the
\* three keys (update_info).  It is shown sample by sample: StartContext
\* puts the first sample's boundaries, AppendSample one more, and no layer
\* runs until EnterPacked hands the batch to the model, so the layers only
\* ever read the finished context.
StartContext(b) ==
  /\ pc = "idle"
  /\ passes < MaxPasses
  /\ passes' = passes + 1
  /\ hub' = PackedContext(<<b>>)
  /\ written' = PackedContext(<<b>>)
  /\ batch' = [bsz |-> 1, q_len |-> 1, populated |-> FALSE]
  /\ pc' = "assembling"
  /\ layer' = 0
  /\ out' = NoCall
  /\ UNCHANGED <<SUPPORT_FLASH2, SUPPORT_XFORMERS, held, fedLen>>

AppendSample(b) ==
  /\ pc = "assembling"
  /\ Len(Get(hub.cumulative_len)) < MaxBsz
  /\ hub' = PackedContext(Append(Get(hub.cumulative_len), b))
  /\ written' = hub'
  /\ UNCHANGED <<SUPPORT_FLASH2, SUPPORT_XFORMERS, batch, passes, pc, layer,
                 out, held, fedLen>>

\* The packed batch, of shape [bsz, q_len, hidden], enters the model.
EnterPacked(bsz, q_len) ==
  /\ pc = "assembling"
  /\ batch' = [bsz |-> bsz, q_len |-> q_len, populated |-> TRUE]
  /\ pc' = "running"
  /\ UNCHANGED <<SUPPORT_FLASH2, SUPPORT_XFORMERS, hub, written, passes,
                 layer, out, held, fedLen>>

\* The upstream stage, before the next batch, overwrites the three keys with
\* None.
ClearContext ==
  /\ pc = "idle"
  /\ hub # NoContext
  /\ hub' = NoContext
  /\ written' = NoContext
  /\ batch' = [bsz |-> 1, q_len |-> 1, populated |-> FALSE]
  /\ layer' = 0
  /\ out' = NoCall
  /\ UNCHANGED <<SUPPORT_FLASH2, SUPPORT_XFORMERS, passes, pc, held, fedLen>>

\* A padded batch enters the model; the upstream stage writes nothing.
BeginPadded(bsz, q_len) ==
  /\ pc = "idle"
  /\ passes < MaxPasses
  /\ passes' = passes + 1
  /\ batch' = [bsz |-> bsz, q_len |-> q_len, populated |-> FALSE]
  /\ pc' = "running"
  /\ layer' = 0
  /\ out' = NoCall
  /\ UNCHANGED <<SUPPORT_FLASH2, SUPPORT_XFORMERS, hub, written, held, fedLen>>

\* One layer of the pass calls internlm_attn_forward; an exception aborts
\* the pass.
Forward ==
  /\ pc = "running"
  /\ layer < NumLayers
  /\ LET r == Fwd(hub, batch.bsz, Hidden(batch.q_len), None, FALSE,
                  SUPPORT_FLASH2, SUPPORT_XFORMERS) IN
     /\ out' = r.res
     /\ hub' = r.hub
     /\ layer' = layer + 1
     /\ pc' = IF r.res.outcome = "ok" /\ layer + 1 < NumLayers
              THEN "running" ELSE "idle"
  /\ UNCHANGED <<SUPPORT_FLASH2, SUPPORT_XFORMERS, written, batch, passes,
                 held, fedLen>>

\* The attention part at rest, for the specifications that do not run it.
AttnIdle ==
  /\ SUPPORT_FLASH2 = FALSE /\ SUPPORT_XFORMERS = FALSE
  /\ hub = NoContext /\ written = NoContext
  /\ batch = [bsz |-> 1, q_len |-> 1, populated |-> FALSE]
  /\ passes = 0 /\ pc = "idle" /\ layer = 0 /\ out = NoCall
  /\ held = None /\ fedLen = 0

RotIdle == rotX = <<>> /\ rotY = <<>> /\ rotPc = 0
ChatIdle ==
  /\ hasImage = FALSE /\ hasSystem = FALSE /\ n_turn = 0 /\ inputs = <<>> /\ chatPc = "off"
  /\ ids = <<>>

Init == AttnInit /\ RotIdle /\ ChatIdle

Next ==
  \/ \E b \in Boundaries : StartContext(b) /\ UNCHANGED <<rotVars, chatVars>>
  \/ \E b \in Boundaries : AppendSample(b) /\ UNCHANGED <<rotVars, chatVars>>
  \/ \E bsz \in 1..MaxBsz, q_len \in 1..MaxQ :
       EnterPacked(bsz, q_len) /\ UNCHANGED <<rotVars, chatVars>>
  \/ ClearContext /\ UNCHANGED <<rotVars, chatVars>>
  \/ \E bsz \in 1..MaxBsz, q_len \in 1..MaxQ :
       BeginPadded(bsz, q_len) /\ UNCHANGED <<rotVars, chatVars>>
  \/ Forward /\ UNCHANGED <<rotVars, chatVars>>

Spec == Init /\ [][Next]_vars

\* ------------------------------------------------------- the decode loop
\* Token values of a hidden state.
Toks == {0, 1}

\* The hidden states a decode step may feed: 1..MaxQ new tokens, as long as
\* the key/value sequence stays within MaxKV.
StepInputs(pastLen) ==
  UNION {SeqsOfLen(Toks, q) : q \in {n \in 1..MaxQ : pastLen + n <= MaxKV}}

DecodeInit ==
  /\ SUPPORT_FLASH2 \in BOOLEAN
  /\ SUPPORT_XFORMERS \in BOOLEAN
  /\ hub \in {NoContext} \cup {PackedContext(<<<<0, q>>>>) : q \in 1..MaxQ}
  /\ written = hub
  /\ batch = [bsz |-> 1, q_len |-> 1, populated |-> FALSE]
  /\ passes = 0
  /\ pc = "idle"
  /\ layer = 0
  /\ out = NoCall
  /\ held = None
  /\ fedLen = 0

\* The caller's step: forward on `hidden` with the cache `past`, keeping the
\* returned cache; an exception leaves the caller's cache as it was.
CallWithCache(hidden, past, pastLen, use_cache) ==
  LET r == Fwd(hub, 1, hidden, past, use_cache,
               SUPPORT_FLASH2, SUPPORT_XFORMERS) IN
  /\ out' = r.res
  /\ hub' = r.hub
  /\ batch' = [bsz |-> 1, q_len |-> Len(hidden), populated |-> FALSE]
  /\ held' = IF r.res.outcome = "ok" THEN r.res.present ELSE held
  /\ fedLen' = IF r.res.outcome # "ok" THEN fedLen
               ELSE IF use_cache THEN pastLen + Len(hidden) ELSE 0
  /\ UNCHANGED <<SUPPORT_FLASH2, SUPPORT_XFORMERS, written, passes, pc, layer>>

\* The first call of a generation: no cache is supplied.
Prefill(hidden, use_cache) == CallWithCache(hidden, None, 0, use_cache)

\* A later call: the cache returned by the previous call is supplied.
DecodeStep(hidden, use_cache) ==
  /\ held # None
  /\ CallWithCache(hidden, held, fedLen, use_cache)

DecodeNext ==
  \/ \E hidden \in StepInputs(0), use_cache \in BOOLEAN :
       Prefill(hidden, use_cache) /\ UNCHANGED <<rotVars, chatVars>>
  \/ \E hidden \in StepInputs(fedLen), use_cache \in BOOLEAN :
       DecodeStep(hidden, use_cache) /\ UNCHANGED <<rotVars, chatVars>>

InitDecode == DecodeInit /\ RotIdle /\ ChatIdle

SpecDecode == InitDecode /\ [][DecodeNext]_vars

\* ------------------------------------------------ the claims on attention
RECURSIVE SumSeq(_)
SumSeq(s) == IF s = <<>> THEN 0 ELSE Head(s) + SumSeq(Tail(s))

\* The packed kernel's masking: query token t attends key token s iff both
\* lie between two consecutive entries of cu_seqlens and s <= t.
Attends(cu, t, s) ==
  /\ s <= t
  /\ \E j \in 1..(Len(cu) - 1) :
       cu[j] <= s /\ s < cu[j + 1] /\ cu[j] <= t /\ t < cu[j + 1]

\* A context that satisfies the data model: one boundary vector per sample,
\* each ending at the sample's row length.
ValidContext(cl, bsz, q_len) ==
  Len(cl) = bsz /\ \A i \in 1..bsz : Last(cl[i]) = q_len

\* Tokens t and s of the flattened stream lie in the same sample and in the
\* same packed subsequence of it, by the boundaries cl.
SameSubsequence(cl, q_len, t, s) ==
  /\ t \div q_len = s \div q_len
  /\ LET b == cl[(t \div q_len) + 1] IN
     \E j \in 1..(Len(b) - 1) :
       /\ b[j] <= t % q_len /\ t % q_len < b[j + 1]
       /\ b[j] <= s % q_len /\ s % q_len < b[j + 1]

\* C1: in packed layout, a context whose sample count differs from the batch
\* size, or in which any sample's final boundary differs from q_len, makes
\* forward fail on an assertion before any kernel runs: it never proceeds
\* to a kernel with such a context.  (Either assertion of forward is taken
\* as the failure, so that only a kernel run on a mismatched context
\* counts against the claim.)
C1_LayoutMismatchRejected ==
  (out.called /\ out.local) =>
    LET cl == Get(out.cuRead) IN
    ~ValidContext(cl, out.bsz, out.q_len) =>
      /\ out.kernel = "none"
      /\ out.outcome \in {"AssertionError:layout",
                          "AssertionError:SUPPORT_FLASH2"}

\* C2: forward leaves the context as the upstream stage wrote it, so every
\* layer of the pass reads the boundaries that were written.
C2_ForwardLeavesContext ==
  (out.called /\ batch.populated) =>
    hub = written /\ out.cuRead = written.cumulative_len

\* The first available of the dense, generic and reference kernels.
FirstAvailable ==
  IF SUPPORT_FLASH2 THEN DENSE ELSE IF SUPPORT_XFORMERS THEN XOPS ELSE SDPA

\* C3: a padded batch runs the first available of the dense, the generic and
\* the reference kernel, and forward completes whichever are available.
C3_PaddedFallbackChain ==
  (out.called /\ ~out.local) =>
    out.outcome = "ok" /\ out.kernel = FirstAvailable

\* C4: in packed layout only the packed kernel is ever invoked; without it
\* forward fails before any kernel starts.
C4_PackedOnlyVarlen ==
  (out.called /\ out.local) =>
    /\ out.kernel \in {"none", VARLEN}
    /\ out.outcome = "ok" => out.kernel = VARLEN
    /\ ~SUPPORT_FLASH2 =>
         /\ out.kernel = "none"
         /\ out.outcome \in {"AssertionError:layout",
                             "AssertionError:SUPPORT_FLASH2"}
         /\ ValidContext(Get(out.cuRead), out.bsz, out.q_len) =>
              out.outcome = "AssertionError:SUPPORT_FLASH2"

C4_Witness ==
  /\ out.called /\ out.local /\ ~SUPPORT_FLASH2 /\ SUPPORT_XFORMERS
  /\ out.outcome = "AssertionError:SUPPORT_FLASH2"
  /\ out.bsz = 2

\* C5: the boundary vector handed to the packed kernel starts at 0, ends at
\* the flattened token count, is the samples' vectors each shifted by the
\* lengths of the samples before it, and the samples' spans add up to the
\* token count.
C5_BoundaryVectorTiles ==
  out.kernel = VARLEN =>
    LET cl == Get(out.cuRead)
        cu == out.cu_seqlens
        total == out.bsz * out.q_len IN
    /\ cu[1] = 0
    /\ Last(cu) = total
    /\ cu = Cat([i \in 1..Len(cl) |->
                   [j \in 1..Len(cl[i]) |-> cl[i][j] + (i - 1) * out.q_len]])
    /\ SumSeq([i \in 1..Len(cl) |-> Last(cl[i]) - cl[i][1]]) = total

\* C6: under the packed kernel's masking no query token attends a later
\* token, or a key of another packed subsequence or another sample.
C6_CausalIsolation ==
  (/\ out.kernel = VARLEN
   /\ batch.populated
   /\ ValidContext(Get(written.cumulative_len), out.bsz, out.q_len)) =>
    \A t \in 0..(out.bsz * out.q_len - 1), s \in 0..(out.bsz * out.q_len - 1) :
      Attends(out.cu_seqlens, t, s) =>
        s <= t /\ SameSubsequence(Get(written.cumulative_len), out.q_len, t, s)

\* C7 as claimed: a pass for which the upstream stage wrote no context is
\* treated as padded, whatever passes came before.
C7_UnpopulatedMeansPadded ==
  (out.called /\ ~batch.populated) =>
    /\ ~out.local
    /\ ~out.validated
    /\ out.position_index # "indexes"
    /\ out.kernel # VARLEN

\* C7 as amended: forward takes the packed path exactly when the hub holds a
\* cumulative_len at the time of the call, whichever pass wrote it; with
\* none it validates nothing, gathers the rotary rows by position_ids and
\* never runs the packed kernel.
C7_AbsentContextMeansPadded ==
  out.called =>
    /\ out.local <=> (out.cuRead # None)
    /\ out.cuRead # None =>
         out.validated /\ out.position_index \in {"indexes", "none"}
    /\ out.cuRead = None =>
         /\ ~out.validated
         /\ out.position_index = "position_ids"
         /\ out.kernel # VARLEN
         /\ out.outcome # "AssertionError:layout"

C7_Witness ==
  /\ out.called /\ out.cuRead = None /\ passes = 2 /\ ~batch.populated
  /\ out.outcome = "ok" /\ out.kernel = DENSE

\* C8: the merged keys and values are the supplied cache followed by the new
\* entries, the supplied cache is left as it was, the returned cache is the
\* merged pair iff use_cache, and the cache a decode loop holds is as long
\* as the tokens it fed.
C8_CacheMerge ==
  /\ held # None =>
       Len(Get(held)[1]) = fedLen /\ Len(Get(held)[2]) = fedLen
  /\ (out.called /\ out.outcome = "ok") =>
       LET N == IF out.past = None THEN 0 ELSE Len(Get(out.past)[1])
           q == out.q_len
           K == out.key_states
           V == out.value_states IN
       /\ Len(K) = N + q /\ Len(V) = N + q
       /\ out.kv_seq_len = N + q
       /\ out.past # None =>
            /\ SubSeq(K, 1, N) = Get(out.past)[1]
            /\ SubSeq(V, 1, N) = Get(out.past)[2]
       /\ SubSeq(K, N + 1, N + q) = out.newKey
       /\ SubSeq(V, N + 1, N + q) = out.newValue
       /\ out.pastAfter = out.past
       /\ out.present = (IF out.use_cache THEN Some(<<K, V>>) ELSE None)

C8_Witness ==
  /\ out.called /\ out.outcome = "ok" /\ out.use_cache
  /\ out.past # None /\ Len(Get(out.past)[1]) = 2 /\ out.q_len = 1
  /\ fedLen = 3
  /\ Get(out.past)[1][1] # out.newKey[1]

\* ----------------------------------------------------------- rotate_half
Neg(x) == [i \in 1..Len(x) |-> 0 - x[i]]

\* A slip: the second half is not negated.
rotate_half_unsigned(x) ==
  SubSeq(x, (Len(x) \div 2) + 1, Len(x)) \o SubSeq(x, 1, Len(x) \div 2)

\* x1 = x[..., :d // 2]; x2 = x[..., d // 2:]; cat((-x2, x1)), on one row of
\* the last dimension.
rotate_half(x) ==
  LET d == Len(x)
      x1 == SubSeq(x, 1, d \div 2)
      x2 == SubSeq(x, (d \div 2) + 1, d) IN
  Neg(x2) \o x1

\* Integer rows of even length.
EvenRows ==
  UNION {SeqsOfLen((0 - MaxAbs)..MaxAbs, 2 * h) : h \in 0..MaxHalf}

RotInit == rotX \in EvenRows /\ rotY = rotX /\ rotPc = 0

\* rotate_half applied to the current value, at most twice.
ApplyRotateHalf ==
  /\ rotPc < 2
  /\ rotY' = rotate_half(rotY)
  /\ rotPc' = rotPc + 1
  /\ UNCHANGED rotX

RotNext == ApplyRotateHalf /\ UNCHANGED <<attnVars, chatVars>>

InitRot == AttnIdle /\ RotInit /\ ChatIdle

SpecRot == InitRot /\ [][RotNext]_vars

\* C9: rotate_half keeps the shape, and applied twice to a row of even
\* length it gives the row negated.
C9_RotateHalfTwiceNegates ==
  /\ Len(rotY) = Len(rotX)
  /\ rotPc = 2 => rotY = Neg(rotX)

C9_Witness ==
  /\ rotPc = 2 /\ Len(rotX) = 4
  /\ rotX[1] = 1 /\ rotX[2] = 2 /\ rotX[3] = 0 - 1 /\ rotX[4] = 0

\* -------------------------------------------------- the chat loop (main)
DEFAULT_IMAGE_TOKEN == "<image>"
IMAGE_TOKEN_INDEX == "IMAGE_TOKEN_INDEX"

\* What the user may type besides RESET and EXIT, and the pieces of text the
\* model may generate; none holds the image placeholder.
UserTexts == {"u1", "u2"}
OutputPieces == {"a1", "a2"}

\* The outputs of llm.generate: 1..MaxNewTokens tokens.
Outputs == UNION {SeqsOfLen(OutputPieces, n) : n \in 1..MaxNewTokens}

RECURSIVE Split(_, _)
\* str.split(sep): the chunks between the occurrences of sep.
Split(str, sep) ==
  IF \A i \in 1..Len(str) : str[i] # sep THEN <<str>>
  ELSE LET k == CHOOSE i \in 1..Len(str) :
                  str[i] = sep /\ \A j \in 1..(i - 1) : str[j] # sep IN
       <<SubSeq(str, 1, k - 1)>> \o Split(SubSeq(str, k + 1, Len(str)), sep)

\* tokenizer(chunk) / tokenizer(chunk, add_special_tokens=False)
Tokenizer(chunk, add_special_tokens) ==
  IF add_special_tokens THEN <<"<s>">> \o chunk ELSE chunk

\* text = DEFAULT_IMAGE_TOKEN + '\n' + text, on the first turn with an image
WithImage(text, image, turn) ==
  IF image /\ turn = 0 THEN <<DEFAULT_IMAGE_TOKEN, "\n", text>> ELSE <<text>>

\* prompt_text: the system part on the first turn, then the instruction
PromptText(text, system, turn) ==
  (IF system /\ turn = 0 THEN <<"<<SYS>>">> ELSE <<>>)
    \o <<"[INST]">> \o text \o <<"[/INST]">>

RECURSIVE BuildIds(_, _)
\* ids: the chunks' input_ids with IMAGE_TOKEN_INDEX between them
BuildIds(chunk_encode, first) ==
  IF chunk_encode = <<>> THEN <<>>
  ELSE Tokenizer(Head(chunk_encode), first)
         \o (IF Len(chunk_encode) > 1 THEN <<IMAGE_TOKEN_INDEX>> ELSE <<>>)
         \o BuildIds(Tail(chunk_encode), FALSE)

ChatInit ==
  /\ hasImage \in BOOLEAN
  /\ hasSystem \in BOOLEAN
  /\ n_turn = 0
  /\ inputs = <<>>
  /\ chatPc = "get_input"
  /\ ids = <<>>

\* get_input() returns RESET: the history is dropped.
InputReset ==
  /\ chatPc = "get_input"
  /\ n_turn' = 0
  /\ inputs' = <<>>
  /\ UNCHANGED <<hasImage, hasSystem, chatPc, ids>>

\* get_input() returns EXIT.
InputExit ==
  /\ chatPc = "get_input"
  /\ chatPc' = "exit"
  /\ UNCHANGED <<hasImage, hasSystem, n_turn, inputs, ids>>

\* get_input() returns a text: the prompt is extended, split at the image
\* placeholder and encoded; the assertion and the read of `image` may raise.
InputText(text) ==
  /\ chatPc = "get_input"
  /\ n_turn < MaxTurns
  /\ LET prompt_text ==
           PromptText(WithImage(text, hasImage, n_turn), hasSystem, n_turn)
         chunk_encode == Split(inputs \o prompt_text, DEFAULT_IMAGE_TOKEN) IN
     /\ inputs' = inputs \o prompt_text
     /\ IF Len(chunk_encode) # 2
        THEN chatPc' = "AssertionError" /\ ids' = ids
        ELSE /\ ids' = BuildIds(chunk_encode, TRUE)
             /\ chatPc' = IF hasImage THEN "generate" ELSE "NameError"
  /\ UNCHANGED <<hasImage, hasSystem, n_turn>>

\* llm.generate returns; its text joins the history, which is dropped when
\* the output is max_new_tokens long.
Generate(output) ==
  /\ chatPc = "generate"
  /\ chatPc' = "get_input"
  /\ IF Len(output) >= MaxNewTokens
     THEN n_turn' = 0 /\ inputs' = <<>>
     ELSE n_turn' = n_turn + 1 /\ inputs' = inputs \o output
  /\ UNCHANGED <<hasImage, hasSystem, ids>>

ChatNext ==
  \/ InputReset /\ UNCHANGED <<attnVars, rotVars>>
  \/ InputExit /\ UNCHANGED <<attnVars, rotVars>>
  \/ \E text \in UserTexts : InputText(text) /\ UNCHANGED <<attnVars, rotVars>>
  \/ \E output \in Outputs : Generate(output) /\ UNCHANGED <<attnVars, rotVars>>

InitChat == AttnIdle /\ RotIdle /\ ChatInit

SpecChat == InitChat /\ [][ChatNext]_vars

Count(str, x) == Cardinality({i \in 1..Len(str) : str[i] = x})

\* C10: with or without --image, at every generation step the prompt holds
\* exactly one image placeholder, so the assertion on the chunks holds and
\* exactly one IMAGE_TOKEN_INDEX is in the ids; a reset clears n_turn and
\* inputs together.
C10_OnePlaceholderPerPrompt ==
  /\ chatPc \notin {"AssertionError", "NameError"}
  /\ chatPc = "generate" =>
       /\ Count(inputs, DEFAULT_IMAGE_TOKEN) = 1
       /\ Count(ids, IMAGE_TOKEN_INDEX) = 1
  /\ (chatPc = "get_input" /\ n_turn = 0) => inputs = <<>>

====
